---- MODULE Spec2Model ----
(***************************************************************************)
(* Order scheduling and execution engine of the Solana trading bot         *)
(* (src/services/trading_engine.py with the store operations of            *)
(* src/services/database.py it calls).                                     *)
(*                                                                         *)
(* Every coroutine is cut at its awaits: one action per stretch of code    *)
(* between two suspension points.  Amounts are integers in thousandths of *)
(* a SOL, prices in tenths.  A MongoDB _id is an ObjectId; the engine      *)
(* mostly carries its str() form, and the two never compare equal, so both *)
(* forms are kept apart as <<"oid", n>> and <<"str", n>>.                  *)
(***************************************************************************)
EXTENDS Integers, Sequences, FiniteSets, TLC

\* ---------------------------------------------------------------- bounds
MaxTrades == 2      \* create_trade_order calls that reach the store
MaxLoops == 2       \* _process_orders loop instances ever started
MaxCancels == 1     \* cancel_user_order calls
MaxExecs == 3       \* _execute_market_order invocations

Users == {1, 2}
Kinds == {"buy", "snipe"}
NoExpiry == -1
MaxTime == 1

VARIABLES
  trades,          \* db.trades: sequence of documents, _id = Oid(index)
  active_orders,   \* TradingEngine.active_orders: dict as insertion-ordered sequence of [id, order]
  is_running,      \* TradingEngine.is_running
  creates,         \* create_trade_order calls: sequence of [order, pc, ret]
  execs,           \* _execute_market_order invocations: sequence of [id, order, pc, res, by, alerts]
  loops,           \* _process_orders loop instances: sequence of [pc, snap]
  cancels,         \* cancel_user_order calls: sequence of [user, oid, pc, st0, ret]
  swaps,           \* execute_swap invocations issued by _execute_market_order, per order id
  now,             \* datetime.utcnow(), in ticks
  snipe_doc,       \* db.snipe_orders: the document of one allocation
  held,            \* the snipe_order dict a caller keeps and passes again
  scalls,          \* execute_snipe_trade calls in flight, two slots
  ncalls,          \* execute_snipe_trade calls started
  bought,          \* sum of the child buys whose swap succeeded
  orders,          \* db.orders: sequence of limit-order documents, _id = Oid(index)
  lsnap,           \* _monitor_limit_orders: what is left of the tick's list of pending orders
  lticks,          \* _monitor_limit_orders: ticks started
  handed,          \* per limit order: the prices at which it was handed to execute_market_buy/sell
  lcheck,          \* the last _check_limit_order call: what it saw and did
  positions,       \* db.trades documents that carry a stop_loss, _id = Oid(index)
  ssnap,           \* _monitor_stop_losses: what is left of the tick's list
  sticks,          \* _monitor_stop_losses: ticks started
  sells,           \* per position: execute_market_sell calls issued by _execute_stop_loss
  scheck,          \* the last _check_stop_loss call: what it saw and did
  copy_trading_subscriptions,  \* TradingEngine.copy_trading_subscriptions: the users that follow the source wallet
  cloaded,         \* _load_copy_trading_subscriptions has run
  substore,        \* db.copy_trading_subscriptions: sequence of documents
  chain,           \* the source wallet's transactions, signature = index
  cticks,          \* _monitor_copy_trading: ticks run
  seen,            \* per signature: ticks that passed it to _execute_copy_trades
  relayed,         \* per <<signature, user>>: child trades submitted
  children,        \* per <<signature, user>>: the amounts of the child trades submitted
  mtrades,         \* db.trades documents stored by execute_market_buy / execute_market_sell
  mlast,           \* the last execute_market_buy / execute_market_sell call: inputs and result
  unsub,           \* users whose last subscription call was an unsubscribe that returned success
  fan,             \* the last _execute_copy_trades call: [pc, tx, snap, left]
  attempts,        \* child trades that call submitted: sequence of [user, source, amount, settings, outcome]
  admitted,        \* what create_trade_order and create_snipe_order accepted: set of [via, kind, tier]
  polled,          \* _monitor_copy_trading: the wallets the last tick fetched transactions for
  sublast          \* the last subscribe_copy_trading call: [user, stored, ret]

engineVars == <<trades, active_orders, is_running, creates, execs, loops, cancels, swaps, now>>
snipeVars == <<snipe_doc, held, scalls, ncalls, bought>>
limitVars == <<orders, lsnap, lticks, handed, lcheck>>
stopVars == <<positions, ssnap, sticks, sells, scheck>>
copyVars == <<copy_trading_subscriptions, cloaded, substore, chain, cticks, seen, relayed,
              children, unsub>>
fanVars == <<fan, attempts>>
gateVars == <<admitted>>
subVars == <<polled, sublast>>
marketVars == <<mtrades, mlast>>
vars == <<engineVars, snipeVars, limitVars, stopVars, copyVars, marketVars, fanVars, gateVars,
          subVars>>

\* what the actions of one part leave alone
NotEngine == <<subVars, snipeVars, limitVars, stopVars, copyVars, marketVars, fanVars, gateVars>>
NotSnipe == <<subVars, engineVars, limitVars, stopVars, copyVars, marketVars, fanVars, gateVars>>
NotLimit == <<subVars, snipeVars, stopVars, copyVars, marketVars, fanVars, gateVars, trades, active_orders, is_running,
              creates, execs, loops, cancels, swaps>>
NotStop == <<subVars, engineVars, snipeVars, limitVars, copyVars, marketVars, fanVars, gateVars>>
NotSubscription == <<engineVars, snipeVars, limitVars, stopVars, marketVars, fanVars, gateVars>>
NotCopy == <<subVars, NotSubscription>>
NotMarket == <<subVars, engineVars, snipeVars, limitVars, stopVars, copyVars, fanVars, gateVars>>
NotGate == <<subVars, limitVars, stopVars, copyVars, marketVars, fanVars>>
NotFan == <<subVars, engineVars, snipeVars, limitVars, stopVars, marketVars, gateVars>>

\* ------------------------------------------------------- ids and the dict
Oid(n) == <<"oid", n>>
StrId(n) == <<"str", n>>
\* str(doc['_id'])
StrOf(id) == <<"str", id[2]>>
\* bson.ObjectId(x): parses the 24-hex string, copies an ObjectId
ObjectId(x) == <<"oid", x[2]>>

HasKey(d, k) == \E i \in 1..Len(d) : d[i].id = k
DictSet(d, k, v) ==
  IF HasKey(d, k)
  THEN [i \in 1..Len(d) |-> IF d[i].id = k THEN [id |-> k, order |-> v] ELSE d[i]]
  ELSE Append(d, [id |-> k, order |-> v])
DictDel(d, k) == SelectSeq(d, LAMBDA e : e.id # k)

RECURSIVE LoadAll(_, _, _)
LoadAll(d, docs, i) ==
  IF i > Len(docs) THEN d
  ELSE IF docs[i].status \in {"pending", "executing"}
       THEN LoadAll(DictSet(d, StrOf(Oid(i)),
                            [req |-> docs[i].req, user |-> docs[i].user,
                             kind |-> docs[i].kind, exp |-> docs[i].exp]),
                    docs, i + 1)
       ELSE LoadAll(d, docs, i + 1)

\* DatabaseManager.update_trade_status: unconditional $set of the status
update_trade_status(docs, trade_id, status) ==
  LET oid == ObjectId(trade_id) IN
  [i \in 1..Len(docs) |->
     IF Oid(i) = oid THEN [docs[i] EXCEPT !.status = status] ELSE docs[i]]

\* trades.find({'user_id': u}).sort('created_at', -1).limit(1)
LatestOf(docs, u) ==
  LET S == {i \in 1..Len(docs) : docs[i].user = u} IN
  IF S = {} THEN 0 ELSE CHOOSE i \in S : \A j \in S : j <= i

\* amounts are in thousandths of a SOL
MIN_TRADE_AMOUNT == 10
MAX_TRADE_AMOUNT == 10000
MaxSnipeCalls == 7          \* execute_snipe_trade calls started
SnipeMaxChoices == {45, 1000}
NoDoc == [status |-> "none"]
IdleCall == [pc |-> "idle"]

MaxOrders == 2              \* limit orders stored
MaxTicks == 3               \* ticks of _monitor_limit_orders
PendingCap == 100
\* prices are in tenths; 0 is the 0.0 get_token_price returns without a quote
Prices == {0, 95, 110, 120}
NoCheck == [o |-> 0]

MaxPositions == 2           \* trades with a stop-loss stored
MaxStopTicks == 3           \* ticks of _monitor_stop_losses

MaxTxs == 1                 \* transactions of the source wallet
MaxSubs == 2                \* subscription documents stored
MaxCopyTicks == 2           \* ticks of _monitor_copy_trading
RecentLimit == 5

MaxMarket == 2              \* trades stored by execute_market_buy / execute_market_sell
NoCall == [fn |-> "none"]
NoSub == [user |-> 0, stored |-> FALSE, ret |-> "none"]
NoFan == [pc |-> "none", tx |-> [amount |-> 0], snap |-> <<>>, left |-> <<>>]
None == "None"
SOL_MINT == "So11111111111111111111111111111111111111112"

Init ==
  /\ trades = <<>>
  /\ active_orders = <<>>
  /\ is_running = FALSE
  /\ creates = <<>>
  /\ execs = <<>>
  /\ loops = <<>>
  /\ cancels = <<>>
  /\ swaps = [n \in 1..MaxTrades |-> 0]
  /\ now = 0
  /\ snipe_doc = NoDoc
  /\ held = NoDoc
  /\ scalls = [c \in 1..2 |-> IdleCall]
  /\ ncalls = 0
  /\ bought = 0
  /\ orders = <<>>
  /\ lsnap = <<>>
  /\ lticks = 0
  /\ handed = [n \in 1..MaxOrders |-> <<>>]
  /\ lcheck = NoCheck
  /\ positions = <<>>
  /\ ssnap = <<>>
  /\ sticks = 0
  /\ sells = [n \in 1..MaxPositions |-> 0]
  /\ scheck = NoCheck
  /\ copy_trading_subscriptions = {}
  /\ cloaded = FALSE
  /\ substore = <<>>
  /\ chain = <<>>
  /\ cticks = 0
  /\ seen = [g \in 1..MaxTxs |-> 0]
  /\ relayed = [k \in (1..MaxTxs) \X Users |-> 0]
  /\ children = [k \in (1..MaxTxs) \X Users |-> {}]
  /\ mtrades = <<>>
  /\ mlast = NoCall
  /\ unsub = {}
  /\ fan = NoFan
  /\ attempts = <<>>
  /\ admitted = {}
  /\ polled = {}
  /\ sublast = NoSub

\* ------------------------------------------------ create_trade_order
\* create_trade_order up to its first store await: _validate_order, then
\* db.store_trade inserts the document with status pending.
CreateStore(u, k, e) ==
  /\ Len(trades) < MaxTrades
  /\ LET r == Len(creates) + 1
         order == [req |-> r, user |-> u, kind |-> k, exp |-> e] IN
     /\ trades' = Append(trades, [user |-> u, kind |-> k, status |-> "pending",
                                  exp |-> e, req |-> r])
     /\ creates' = Append(creates, [order |-> order, pc |-> "stored", ret |-> "none"])
  /\ UNCHANGED <<active_orders, is_running, execs, loops, cancels, swaps, now, NotEngine>>

\* create_trade_order after store_trade returned: the id of the user's latest
\* trade is looked up, the order is entered in active_orders under it, and a
\* market order gets its execution task.
CreateLookup(r) ==
  /\ r \in 1..Len(creates)
  /\ creates[r].pc = "stored"
  /\ LET order == creates[r].order
         n == LatestOf(trades, order.user)
         order_id == StrOf(Oid(n)) IN
     /\ active_orders' = DictSet(active_orders, order_id, order)
     /\ execs' = IF order.kind \in {"buy", "sell"}
                 THEN Append(execs, [id |-> order_id, order |-> order, pc |-> "start",
                                     res |-> "none", by |-> 0, alerts |-> 0])
                 ELSE execs
     /\ creates' = [creates EXCEPT ![r] = [@ EXCEPT !.pc = "done", !.ret = order_id]]
  /\ UNCHANGED <<trades, is_running, loops, cancels, swaps, now, NotEngine>>

\* ---------------------------------------------------- _validate_order
\* What _validate_order reads: whether db.get_user finds the user, the
\* user's subscription_tier and settings.max_trade_amount, the order's kind,
\* amount and slippage (in tenths of a percent), and what validate_address
\* says of its two token addresses.
\* Kept small: free accounts place copy trades and premium ones buys, the
\* personal maximum is below the amount only for the mid amount, and an
\* unknown user comes with an otherwise valid order.
OrderInputs ==
  {o \in [exists : BOOLEAN, tier : {"free", "premium"}, kind : {"buy", "copy_trade"},
          amount : {5, 100, 20000}, user_max : {50, 10000},
          in_ok : BOOLEAN, out_ok : BOOLEAN, slippage : {10, 600}] :
     /\ (o.tier = "free") <=> (o.kind = "copy_trade")
     /\ o.user_max = 50 => o.amount = 100
     /\ ~o.exists => (/\ o.tier = "premium" /\ o.amount = 100 /\ o.user_max = 10000
                      /\ o.in_ok /\ o.out_ok /\ o.slippage = 10)}

\* _validate_order: the reason of the first check that fails, "ok" if none does
validate_order(o) ==
  IF ~o.exists THEN "User not found"
  ELSE IF o.tier = "free" /\ o.kind = "copy_trade"
       THEN "Copy trading requires premium subscription"
  ELSE IF o.amount < MIN_TRADE_AMOUNT THEN "Minimum trade amount"
  ELSE IF o.amount > MAX_TRADE_AMOUNT THEN "Maximum trade amount"
  ELSE IF o.amount > o.user_max THEN "Amount exceeds your maximum trade limit"
  ELSE IF ~o.in_ok THEN "Invalid input token address"
  ELSE IF ~o.out_ok THEN "Invalid output token address"
  ELSE IF o.slippage < 1 \/ o.slippage > 500 THEN "Slippage must be between 0.1% and 50%"
  ELSE "ok"

\* variant of create_trade_order that stores the order before it looks at
\* the outcome of _validate_order
CreateRejected_m(u, o) ==
  /\ \A r \in 1..Len(creates) : creates[r].pc # "rejected"
  /\ validate_order(o) # "ok"
  /\ Len(trades) < MaxTrades
  /\ trades' = Append(trades, [user |-> u, kind |-> o.kind, status |-> "pending",
                               exp |-> NoExpiry, req |-> Len(creates) + 1])
  /\ creates' = Append(creates, [order |-> [user |-> u, o |-> o], pc |-> "rejected",
                                 ret |-> validate_order(o)])
  /\ UNCHANGED <<active_orders, is_running, execs, loops, cancels, swaps, now, NotEngine>>

\* create_trade_order for an order _validate_order rejects: the reason is
\* returned before anything else is done.  (At most one rejected call is
\* kept in the log of calls.)
CreateRejected(u, o) ==
  /\ \A r \in 1..Len(creates) : creates[r].pc # "rejected"
  /\ validate_order(o) # "ok"
  /\ creates' = Append(creates, [order |-> [user |-> u, o |-> o], pc |-> "rejected",
                                 ret |-> validate_order(o)])
  /\ UNCHANGED <<trades, active_orders, is_running, execs, loops, cancels, swaps, now, NotEngine>>

\* create_trade_order when db.store_trade returns False (insert_one raised):
\* "Failed to store trade order".  (At most one such call is kept in the log.)
CreateStoreFails(u, k, e) ==
  /\ \A r \in 1..Len(creates) : creates[r].pc # "store_failed"
  /\ creates' = Append(creates, [order |-> [req |-> Len(creates) + 1, user |-> u, kind |-> k,
                                            exp |-> e],
                                 pc |-> "store_failed", ret |-> "Failed to store trade order"])
  /\ UNCHANGED <<trades, active_orders, is_running, execs, loops, cancels, swaps, now, NotEngine>>

\* create_trade_order after store_trade returned True, when the lookup of
\* the inserted id returns no document ("Failed to retrieve order ID") or
\* raises (the except branch returns str(e))
CreateLookupFails(r, raised) ==
  /\ r \in 1..Len(creates)
  /\ creates[r].pc = "stored"
  /\ creates' = [creates EXCEPT ![r] =
       [@ EXCEPT !.pc = "lookup_failed",
                 !.ret = IF raised THEN "error" ELSE "Failed to retrieve order ID"]]
  /\ UNCHANGED <<trades, active_orders, is_running, execs, loops, cancels, swaps, now, NotEngine>>

\* --------------------------------------------- _execute_market_order
\* await db.update_trade_status(order_id, EXECUTING): no check of the current status
ExecBegin(x) ==
  /\ x \in 1..Len(execs)
  /\ execs[x].pc = "start"
  /\ trades' = update_trade_status(trades, execs[x].id, "executing")
  /\ execs' = [execs EXCEPT ![x] = [@ EXCEPT !.pc = "swap"]]
  /\ UNCHANGED <<active_orders, is_running, creates, loops, cancels, swaps, now, NotEngine>>

\* await solana.execute_swap(...): the venue call, success or failure
ExecSwap(x, ok) ==
  /\ x \in 1..Len(execs)
  /\ execs[x].pc = "swap"
  /\ swaps' = [swaps EXCEPT ![execs[x].id[2]] = @ + 1]
  /\ execs' = [execs EXCEPT ![x] = [@ EXCEPT !.pc = "final",
                                     !.res = IF ok THEN "ok" ELSE "fail"]]
  /\ UNCHANGED <<trades, active_orders, is_running, creates, loops, cancels, now, NotEngine>>

\* The status written after the swap.  execute_swap's success result carries
\* no 'price_impact' key (solana_service.py 477-484), so building the result
\* document of the success branch raises KeyError and the except branch
\* writes FAILED; the failure branch writes FAILED itself.
SwapResultKeys == {"success", "signature", "input_amount", "output_amount", "slippage", "route"}
FinalStatus(res) ==
  IF res = "ok" /\ "price_impact" \in SwapResultKeys THEN "completed" ELSE "failed"

ExecFinal(x) ==
  /\ x \in 1..Len(execs)
  /\ execs[x].pc = "final"
  /\ trades' = update_trade_status(trades, execs[x].id, FinalStatus(execs[x].res))
  /\ execs' = [execs EXCEPT ![x] = [@ EXCEPT !.pc = "cleanup"]]
  /\ UNCHANGED <<active_orders, is_running, creates, loops, cancels, swaps, now, NotEngine>>

\* update_trade_status(order_id, EXECUTING) when the store write fails: the
\* store method logs the exception and returns False, which
\* _execute_market_order does not read; it goes on to the swap
ExecBeginFails(x) ==
  /\ x \in 1..Len(execs)
  /\ execs[x].pc = "start"
  /\ execs' = [execs EXCEPT ![x] = [@ EXCEPT !.pc = "swap"]]
  /\ UNCHANGED <<trades, active_orders, is_running, creates, loops, cancels, swaps, now,
                 NotEngine>>

\* the final status write when the store write fails: False is returned and
\* not read; the function goes on to del active_orders[order_id]
ExecFinalFails(x) ==
  /\ x \in 1..Len(execs)
  /\ execs[x].pc = "final"
  /\ execs' = [execs EXCEPT ![x] = [@ EXCEPT !.pc = "cleanup"]]
  /\ UNCHANGED <<trades, active_orders, is_running, creates, loops, cancels, swaps, now,
                 NotEngine>>

\* await solana.execute_swap(...) raises or times out: the except branch
\* of _execute_market_order takes over
ExecSwapRaises(x) ==
  /\ x \in 1..Len(execs)
  /\ execs[x].pc = "swap"
  /\ swaps' = [swaps EXCEPT ![execs[x].id[2]] = @ + 1]
  /\ execs' = [execs EXCEPT ![x] = [@ EXCEPT !.pc = "final", !.res = "raised"]]
  /\ UNCHANGED <<trades, active_orders, is_running, creates, loops, cancels, now, NotEngine>>

\* db.create_alert calls of one invocation: the success branch and the
\* failure branch end with one (trade_completed, trade_failed); the except
\* branch, which is where a raising swap and the KeyError of the success
\* branch end up, has none.
Alerts(res) ==
  IF res = "ok" THEN (IF "price_impact" \in SwapResultKeys THEN 1 ELSE 0)
  ELSE IF res = "fail" THEN 1
  ELSE 0

\* after the final status write: del active_orders[order_id] if present,
\* then the alert of the branch
ExecCleanup(x) ==
  /\ x \in 1..Len(execs)
  /\ execs[x].pc = "cleanup"
  /\ active_orders' = DictDel(active_orders, execs[x].id)
  /\ execs' = [execs EXCEPT ![x] = [@ EXCEPT !.pc = "done", !.alerts = Alerts(execs[x].res)]]
  /\ UNCHANGED <<trades, is_running, creates, loops, cancels, swaps, now, NotEngine>>

\* ------------------------------------------- start / stop_monitoring
\* start_monitoring: returns at once when is_running; otherwise sets the flag,
\* reloads the pending and executing trades into active_orders and creates a
\* new _process_orders task (the tasks of an earlier start are not tracked).
StartMonitoring ==
  /\ ~is_running
  /\ Len(loops) < MaxLoops
  /\ is_running' = TRUE
  /\ active_orders' = LoadAll(active_orders, trades, 1)
  /\ loops' = Append(loops, [pc |-> "top", snap |-> <<>>])
  /\ UNCHANGED <<trades, creates, execs, cancels, swaps, now, NotEngine>>

StopMonitoring ==
  /\ is_running
  /\ is_running' = FALSE
  /\ UNCHANGED <<trades, active_orders, creates, execs, loops, cancels, swaps, now, NotEngine>>

\* ---------------------------------------------------- _process_orders
\* `while self.is_running`, evaluated when the task first runs and after
\* each sleep; with orders present the tick takes list(active_orders.items()).
LoopTop(l) ==
  /\ l \in 1..Len(loops)
  /\ loops[l].pc = "top"
  /\ \/ /\ ~is_running
        /\ loops' = [loops EXCEPT ![l] = [@ EXCEPT !.pc = "exit"]]
     \/ /\ is_running
        /\ active_orders # <<>>
        /\ loops' = [loops EXCEPT ![l] = [pc |-> "iter", snap |-> active_orders]]
  /\ UNCHANGED <<trades, active_orders, is_running, creates, execs, cancels, swaps, now, NotEngine>>

AfterItem(snap) == IF Len(snap) = 1 THEN "top" ELSE "iter"

\* order.expires_at and datetime.utcnow() > order.expires_at
IsExpired(order, t) == order.exp # NoExpiry /\ t > order.exp

\* One item of the snapshot.  An expired order calls self._cancel_order, which
\* TradingEngine does not define: AttributeError, caught by the per-order
\* handler.  A limit order goes to _check_limit_order, which subscripts the
\* TradeOrder dataclass: TypeError, caught inside.  A snipe order whose token
\* info has a symbol is passed to _execute_market_order, awaited in line.
LoopItem(l, tradable) ==
  /\ l \in 1..Len(loops)
  /\ loops[l].pc = "iter"
  /\ LET item == Head(loops[l].snap)
         go == /\ ~IsExpired(item.order, now)
               /\ item.order.kind = "snipe"
               /\ tradable IN
     IF go
     THEN /\ Len(execs) < MaxExecs
          /\ execs' = Append(execs, [id |-> item.id, order |-> item.order, pc |-> "start",
                                     res |-> "none", by |-> l, alerts |-> 0])
          /\ loops' = [loops EXCEPT ![l] = [@ EXCEPT !.pc = "wait"]]
     ELSE /\ execs' = execs
          /\ loops' = [loops EXCEPT ![l] = [pc |-> AfterItem(@.snap), snap |-> Tail(@.snap)]]
  /\ UNCHANGED <<trades, active_orders, is_running, creates, cancels, swaps, now, NotEngine>>

\* variant that walks the live dict instead of a list made from it: the
\* execution it awaited has deleted the order's key, so taking the next
\* item raises RuntimeError, the handler of the tick catches it and the
\* rest of the tick is dropped
LoopResume_m(l) ==
  /\ l \in 1..Len(loops)
  /\ loops[l].pc = "wait"
  /\ \E x \in 1..Len(execs) : execs[x].by = l /\ execs[x].pc = "done"
  /\ \A x \in 1..Len(execs) : execs[x].by = l => execs[x].pc = "done"
  /\ loops' = [loops EXCEPT ![l] =
       IF HasKey(active_orders, Head(@.snap).id)
       THEN [pc |-> AfterItem(@.snap), snap |-> Tail(@.snap)]
       ELSE [pc |-> "top", snap |-> <<>>]]
  /\ UNCHANGED <<trades, active_orders, is_running, creates, execs, cancels, swaps, now, NotEngine>>

\* _execute_market_order returned to the loop: the for statement takes the
\* next item of order_items, the list made at the start of the tick
LoopResume(l) ==
  /\ l \in 1..Len(loops)
  /\ loops[l].pc = "wait"
  /\ \E x \in 1..Len(execs) : execs[x].by = l /\ execs[x].pc = "done"
  /\ \A x \in 1..Len(execs) : execs[x].by = l => execs[x].pc = "done"
  /\ loops' = [loops EXCEPT ![l] = [pc |-> AfterItem(@.snap), snap |-> Tail(@.snap)]]
  /\ UNCHANGED <<trades, active_orders, is_running, creates, execs, cancels, swaps, now, NotEngine>>

Tick ==
  /\ now < MaxTime
  /\ now' = now + 1
  /\ UNCHANGED <<trades, active_orders, is_running, creates, execs, loops, cancels, swaps, NotEngine>>

\* --------------------------------------------------- cancel_user_order
\* variant of the lookup whose filter leaves out user_id
FindOwned_m(docs, order_id, u) ==
  \E i \in 1..Len(docs) : Oid(i) = order_id

\* trades.find_one({'_id': order_id, 'user_id': user_id}): the _id of a trade
\* is an ObjectId, so the filter matches only an order_id that is one
FindOwned(docs, order_id, u) ==
  \E i \in 1..Len(docs) : Oid(i) = order_id /\ docs[i].user = u

StatusOf(docs, order_id) ==
  IF order_id[2] \in 1..Len(docs) THEN docs[order_id[2]].status ELSE "none"
OwnerOf(docs, order_id) ==
  IF order_id[2] \in 1..Len(docs) THEN docs[order_id[2]].user ELSE 0

\* cancel_user_order up to the lookup; st0 and own0 remember the status and
\* owner of the order at the time of the call
CancelFind(u, order_id) ==
  /\ Len(cancels) < MaxCancels
  /\ cancels' = Append(cancels,
       [user |-> u, oid |-> order_id,
        st0 |-> StatusOf(trades, order_id),
        own0 |-> OwnerOf(trades, order_id),
        pc |-> IF FindOwned(trades, order_id, u) THEN "update" ELSE "done",
        ret |-> IF FindOwned(trades, order_id, u) THEN "none" ELSE "Order not found"])
  /\ UNCHANGED <<trades, active_orders, is_running, creates, execs, loops, swaps, now, NotEngine>>

\* the rest of cancel_user_order: status cancelled is written whatever the
\* current status, the key is deleted from active_orders if it is in it
CancelUpdate(c) ==
  /\ c \in 1..Len(cancels)
  /\ cancels[c].pc = "update"
  /\ trades' = update_trade_status(trades, cancels[c].oid, "cancelled")
  /\ active_orders' = DictDel(active_orders, cancels[c].oid)
  /\ cancels' = [cancels EXCEPT ![c] = [@ EXCEPT !.pc = "done", !.ret = "ok"]]
  /\ UNCHANGED <<is_running, creates, execs, loops, swaps, now, NotEngine>>

OrderIds == {Oid(n) : n \in 1..MaxTrades} \cup {StrId(n) : n \in 1..MaxTrades}

\* Admission, market execution and cancellation.
Next ==
  \/ \E u \in Users : CreateStore(u, "buy", NoExpiry)
  \/ \E r \in 1..MaxTrades : CreateLookup(r)
  \/ \E x \in 1..MaxExecs : ExecBegin(x)
  \/ \E x \in 1..MaxExecs, ok \in BOOLEAN : ExecSwap(x, ok)
  \/ \E x \in 1..MaxExecs : ExecFinal(x)
  \/ \E x \in 1..MaxExecs : ExecCleanup(x)
  \/ \E u \in Users, id \in OrderIds : CancelFind(u, id)
  \/ \E c \in 1..MaxCancels : CancelUpdate(c)

Spec == Init /\ [][Next]_vars

\* admission and market execution with a store whose status writes can fail
NextPersist ==
  \/ \E u \in Users : CreateStore(u, "buy", NoExpiry)
  \/ \E r \in 1..MaxTrades : CreateLookup(r)
  \/ \E x \in 1..MaxExecs : ExecBegin(x)
  \/ \E x \in 1..MaxExecs : ExecBeginFails(x)
  \/ \E x \in 1..MaxExecs, ok \in BOOLEAN : ExecSwap(x, ok)
  \/ \E x \in 1..MaxExecs : ExecSwapRaises(x)
  \/ \E x \in 1..MaxExecs : ExecFinal(x)
  \/ \E x \in 1..MaxExecs : ExecFinalFails(x)
  \/ \E x \in 1..MaxExecs : ExecCleanup(x)

SpecPersist == Init /\ [][NextPersist]_vars

\* Admission and market execution to their end.  The task asyncio.create_task
\* spawned is run by the event loop, every await of a store or venue call
\* returns or raises, and a call that has stored its order goes on to its
\* lookup: each of these steps is taken once it is possible.
NextExecution ==
  \/ \E u \in Users : CreateStore(u, "buy", NoExpiry)
  \/ \E r \in 1..MaxTrades : CreateLookup(r)
  \/ \E x \in 1..MaxExecs : ExecBegin(x)
  \/ \E x \in 1..MaxExecs, ok \in BOOLEAN : ExecSwap(x, ok)
  \/ \E x \in 1..MaxExecs : ExecSwapRaises(x)
  \/ \E x \in 1..MaxExecs : ExecFinal(x)
  \/ \E x \in 1..MaxExecs : ExecCleanup(x)

ExecutionFairness ==
  /\ \A r \in 1..MaxTrades : WF_vars(CreateLookup(r))
  /\ \A x \in 1..MaxExecs :
       WF_vars(\/ ExecBegin(x)
               \/ \E ok \in BOOLEAN : ExecSwap(x, ok)
               \/ ExecSwapRaises(x)
               \/ ExecFinal(x)
               \/ ExecCleanup(x))

SpecExecution == Init /\ [][NextExecution]_vars /\ ExecutionFairness

\* cancel_user_order calls on orders that are pending or executing
NextCancel ==
  \/ \E u \in Users : CreateStore(u, "buy", NoExpiry)
  \/ \E r \in 1..MaxTrades : CreateLookup(r)
  \/ \E x \in 1..MaxExecs : ExecBegin(x)
  \/ \E u \in Users, id \in OrderIds : CancelFind(u, id)
  \/ \E c \in 1..MaxCancels : CancelUpdate(c)

SpecCancel == Init /\ [][NextCancel]_vars

\* admission alone: create_trade_order with orders that validation accepts
\* or rejects and a store that can fail
NextAdmit ==
  \/ \E o \in OrderInputs : CreateRejected(1, o)
  \/ \E u \in Users : CreateStore(u, "buy", NoExpiry)
  \/ CreateStoreFails(1, "buy", NoExpiry)
  \/ \E r \in 1..(MaxTrades + 2) : CreateLookup(r)
  \/ \E r \in 1..(MaxTrades + 2), raised \in BOOLEAN : CreateLookupFails(r, raised)

SpecAdmit == Init /\ [][NextAdmit]_vars

\* The monitor side: snipe orders, the _process_orders loop, start and stop.
NextMonitor ==
  \/ \E e \in {NoExpiry, 0} : CreateStore(1, "snipe", e)
  \/ \E r \in 1..MaxTrades : CreateLookup(r)
  \/ \E x \in 1..MaxExecs : ExecBegin(x)
  \/ \E x \in 1..MaxExecs, ok \in BOOLEAN : ExecSwap(x, ok)
  \/ \E x \in 1..MaxExecs : ExecFinal(x)
  \/ \E x \in 1..MaxExecs : ExecCleanup(x)
  \/ StartMonitoring
  \/ StopMonitoring
  \/ \E l \in 1..MaxLoops : LoopTop(l)
  \/ \E l \in 1..MaxLoops, tradable \in BOOLEAN : LoopItem(l, tradable)
  \/ \E l \in 1..MaxLoops : LoopResume(l)
  \/ Tick

SpecMonitor == Init /\ [][NextMonitor]_vars

\* one started engine: snipe orders are admitted, the loop hands them to
\* _execute_market_order and the executions delete them from active_orders
NextTick ==
  \/ CreateStore(1, "snipe", NoExpiry)
  \/ \E r \in 1..MaxTrades : CreateLookup(r)
  \/ \E x \in 1..MaxExecs : ExecBegin(x)
  \/ \E x \in 1..MaxExecs, ok \in BOOLEAN : ExecSwap(x, ok)
  \/ \E x \in 1..MaxExecs : ExecFinal(x)
  \/ \E x \in 1..MaxExecs : ExecCleanup(x)
  \/ StartMonitoring
  \/ \E l \in 1..MaxLoops, tradable \in BOOLEAN : LoopItem(l, tradable)
  \/ \E l \in 1..MaxLoops : LoopTop(l)
  \/ \E l \in 1..MaxLoops : LoopResume(l)

SpecTick == Init /\ [][NextTick]_vars

\* start_monitoring and stop_monitoring called in any order (the admin
\* restart handler calls stop, sleeps two seconds and calls start) around a
\* loop that reads is_running only when it wakes from its sleep; the other
\* three loops are created by the same lines and read the flag the same way
NextRestart ==
  \/ CreateStore(1, "snipe", NoExpiry)
  \/ \E r \in 1..MaxTrades : CreateLookup(r)
  \/ StartMonitoring
  \/ StopMonitoring
  \/ \E l \in 1..MaxLoops : LoopTop(l)
  \/ \E l \in 1..MaxLoops : LoopItem(l, FALSE)

SpecRestart == Init /\ [][NextRestart]_vars

\* The bot process ends (cleanup calls stop_monitoring, then the event loop
\* is gone) and is started again: the tasks and calls in flight end where
\* they are, a new TradingEngine is constructed with an empty active_orders
\* and is_running False; the store keeps what was written.
ProcessExit ==
  /\ is_running
  /\ is_running' = FALSE
  /\ active_orders' = <<>>
  /\ loops' = [l \in 1..Len(loops) |-> [pc |-> "exit", snap |-> <<>>]]
  /\ execs' = [x \in 1..Len(execs) |->
                IF execs[x].pc = "done" THEN execs[x] ELSE [execs[x] EXCEPT !.pc = "lost"]]
  /\ creates' = [r \in 1..Len(creates) |->
                  IF creates[r].pc = "stored" THEN [creates[r] EXCEPT !.pc = "lost"]
                  ELSE creates[r]]
  /\ UNCHANGED <<trades, cancels, swaps, now, NotEngine>>

\* snipe orders, the loop that executes them, and the process ending and
\* starting again with what the store holds
NextReload ==
  \/ CreateStore(1, "snipe", NoExpiry)
  \/ \E r \in 1..MaxTrades : CreateLookup(r)
  \/ \E x \in 1..MaxExecs : ExecBegin(x)
  \/ \E x \in 1..MaxExecs, ok \in BOOLEAN : ExecSwap(x, ok)
  \/ \E x \in 1..MaxExecs : ExecFinal(x)
  \/ \E x \in 1..MaxExecs : ExecCleanup(x)
  \/ StartMonitoring
  \/ ProcessExit
  \/ \E l \in 1..MaxLoops : LoopTop(l)
  \/ \E l \in 1..MaxLoops, tradable \in BOOLEAN : LoopItem(l, tradable)
  \/ \E l \in 1..MaxLoops : LoopResume(l)

SpecReload == Init /\ [][NextReload]_vars


\* ================================================== snipe allocations
Min(a, b) == IF a <= b THEN a ELSE b

\* create_snipe_order: max_amount within [0.01, 10.0], stored active with
\* nothing spent.  keep: the caller of execute_snipe_trade holds one dict of
\* the allocation and passes it at every call; otherwise it passes a copy
\* read from the store (get_active_snipe_orders) just before each call.
CreateSnipe(max_amount, keep) ==
  /\ snipe_doc = NoDoc
  /\ ~(max_amount < 10 \/ max_amount > 10000)
  /\ snipe_doc' = [user_id |-> 1, status |-> "active", max_amount |-> max_amount,
                   total_spent |-> 0, executed_trades |-> <<>>]
  /\ held' = IF keep THEN snipe_doc' ELSE NoDoc
  /\ UNCHANGED <<scalls, ncalls, bought, NotSnipe>>

\* the dict a call works on: the one the caller holds, or its own copy
DictOf(c) == IF scalls[c].own THEN scalls[c].d ELSE held

\* max_amount * 0.2
Increment(max_amount) == max_amount \div 5
\* min(remaining_amount, max_amount * 0.2)
TradeAmount(d) == Min(d.max_amount - d.total_spent, Increment(d.max_amount))

\* variant of execute_snipe_trade that buys the 20 % increment without
\* testing what is left of the budget
SnipeBegin_m(c) ==
  /\ snipe_doc # NoDoc
  /\ held = NoDoc => snipe_doc.status = "active"
  /\ ncalls < MaxSnipeCalls
  /\ scalls[c].pc = "idle"
  /\ ncalls' = ncalls + 1
  /\ LET fresh == (held = NoDoc)
         d == IF fresh THEN snipe_doc ELSE held IN
     scalls' = [scalls EXCEPT ![c] =
       [pc |-> "buy", own |-> fresh, d |-> IF fresh THEN d ELSE NoDoc,
        amount |-> Increment(d.max_amount)]]
  /\ UNCHANGED <<snipe_doc, held, bought, NotSnipe>>

\* execute_snipe_trade up to `await self.execute_market_buy`: the budget
\* checks are made on the dict passed in
SnipeBegin(c) ==
  /\ snipe_doc # NoDoc
  /\ held = NoDoc => snipe_doc.status = "active"
  /\ ncalls < MaxSnipeCalls
  /\ scalls[c].pc = "idle"
  /\ ncalls' = ncalls + 1
  /\ LET fresh == (held = NoDoc)
         d == IF fresh THEN snipe_doc ELSE held IN
     scalls' = [scalls EXCEPT ![c] =
       IF d.total_spent >= d.max_amount
       THEN [pc |-> "idle", last |-> "Max amount already spent"]
       ELSE IF TradeAmount(d) < 10
       THEN [pc |-> "idle", last |-> "Insufficient remaining amount"]
       ELSE [pc |-> "buy", own |-> fresh, d |-> IF fresh THEN d ELSE NoDoc,
             amount |-> TradeAmount(d)]]
  /\ UNCHANGED <<snipe_doc, held, bought, NotSnipe>>

\* execute_market_buy: the amount limits, then the swap
BuyAccepted(amount) == ~(amount < MIN_TRADE_AMOUNT \/ amount > MAX_TRADE_AMOUNT)

SnipeBuy(c, ok) ==
  /\ scalls[c].pc = "buy"
  /\ IF BuyAccepted(scalls[c].amount) /\ ok
     THEN /\ bought' = bought + scalls[c].amount
          /\ scalls' = [scalls EXCEPT ![c] = [@ EXCEPT !.pc = "record"]]
     ELSE /\ bought' = bought
          /\ scalls' = [scalls EXCEPT ![c] = [pc |-> "idle", last |-> "buy failed"]]
  /\ UNCHANGED <<snipe_doc, held, ncalls, NotSnipe>>

\* after the buy succeeded: append to executed_trades, total_spent +=
\* trade_amount on the dict, then db.update_snipe_order $sets both fields
\* from the dict
SnipeRecord(c) ==
  /\ scalls[c].pc = "record"
  /\ LET d == DictOf(c)
         d2 == [d EXCEPT !.executed_trades = Append(@, scalls[c].amount),
                         !.total_spent = @ + scalls[c].amount] IN
     /\ held' = IF scalls[c].own THEN held ELSE d2
     /\ snipe_doc' = [snipe_doc EXCEPT !.executed_trades = d2.executed_trades,
                                       !.total_spent = d2.total_spent]
     /\ scalls' = [scalls EXCEPT ![c] = [pc |-> "idle", last |-> "success"]]
  /\ UNCHANGED <<ncalls, bought, NotSnipe>>

\* DatabaseManager.cancel_snipe_order: the filter is the ObjectId of the
\* order and the user id; a matching document is set to cancelled
CancelSnipe(u) ==
  /\ snipe_doc # NoDoc
  /\ snipe_doc' = IF snipe_doc.user_id = u
                  THEN [snipe_doc EXCEPT !.status = "cancelled"]
                  ELSE snipe_doc
  /\ UNCHANGED <<held, scalls, ncalls, bought, NotSnipe>>

NextSnipe ==
  \/ \E m \in SnipeMaxChoices, keep \in BOOLEAN : CreateSnipe(m, keep)
  \/ \E c \in 1..2 : SnipeBegin(c)
  \/ \E c \in 1..2, ok \in BOOLEAN : SnipeBuy(c, ok)
  \/ \E c \in 1..2 : SnipeRecord(c)
  \/ \E u \in Users : CancelSnipe(u)

SpecSnipe == Init /\ [][NextSnipe]_vars


\* ------------------------------------------- the two ways in, by tier
\* Orders that pass every check of _validate_order but, possibly, the one on
\* the subscription tier.
GateInputs ==
  [exists : {TRUE}, tier : {"free", "premium"}, kind : {"buy", "copy_trade", "snipe"},
   amount : {100}, user_max : {10000}, in_ok : {TRUE}, out_ok : {TRUE}, slippage : {10}]

\* create_trade_order for an order _validate_order accepts, up to the
\* store await (as CreateStore, with what the validation read)
AdmitOrder(u, o) ==
  /\ validate_order(o) = "ok"
  /\ Len(trades) < MaxTrades
  /\ LET r == Len(creates) + 1
         order == [req |-> r, user |-> u, kind |-> o.kind, exp |-> NoExpiry] IN
     /\ trades' = Append(trades, [user |-> u, kind |-> o.kind, status |-> "pending",
                                  exp |-> NoExpiry, req |-> r])
     /\ creates' = Append(creates, [order |-> order, pc |-> "stored", ret |-> "none"])
  /\ admitted' = admitted \cup {[via |-> "create_trade_order", kind |-> o.kind,
                                 tier |-> o.tier]}
  /\ UNCHANGED <<active_orders, is_running, execs, loops, cancels, swaps, now, snipeVars,
                 NotGate>>

\* create_snipe_order called for an account of the given tier: the required
\* fields and the range of max_amount are checked, the user is not looked
\* up; the allocation is stored active
AdmitSnipe(tier, max_amount) ==
  /\ snipe_doc = NoDoc
  /\ ~(max_amount < 10 \/ max_amount > 10000)
  /\ snipe_doc' = [user_id |-> 1, status |-> "active", max_amount |-> max_amount,
                   total_spent |-> 0, executed_trades |-> <<>>]
  /\ admitted' = admitted \cup {[via |-> "create_snipe_order", kind |-> "snipe",
                                 tier |-> tier]}
  /\ UNCHANGED <<held, scalls, ncalls, bought, engineVars, NotGate>>

NextGate ==
  \/ \E u \in Users, o \in GateInputs : AdmitOrder(u, o)
  \/ \E o \in GateInputs : CreateRejected(1, o)
  \/ \E r \in 1..MaxTrades : CreateLookup(r)
  \/ \E tier \in {"free", "premium"}, m \in SnipeMaxChoices : AdmitSnipe(tier, m)

SpecGate == Init /\ [][NextGate]_vars


\* ======================================================== limit orders
\* The document TradingEngine.create_limit_order builds: a limit_buy with
\* amount_sol and neither 'price' nor 'expires_at' (price 0 stands for the
\* missing key, as order.get('price', 0) reads it).
EngineLimitDoc == [trade_type |-> "limit_buy", price |-> 0, exp |-> NoExpiry,
                   out_sol |-> FALSE, status |-> "pending", execution_price |-> 0]

\* Documents DatabaseManager.create_limit_order accepts: any order_data.
\* out_sol: the output token is the wrapped-SOL mint.
LimitDocs ==
  {[trade_type |-> t, price |-> 100, exp |-> e, out_sol |-> s,
    status |-> "pending", execution_price |-> 0] :
     t \in {"limit_buy", "limit_sell"}, e \in {NoExpiry, 0}, s \in BOOLEAN}

\* DatabaseManager.create_limit_order
DbCreateLimitOrder(doc) ==
  /\ Len(orders) < MaxOrders
  /\ orders' = Append(orders, [doc EXCEPT !.status = "pending"])
  /\ UNCHANGED <<lsnap, lticks, handed, lcheck, now, NotLimit>>

\* TradingEngine.create_limit_order
CreateLimitOrder == DbCreateLimitOrder(EngineLimitDoc)

\* DatabaseManager.get_all_pending_orders: newest first, at most 100
RECURSIVE PendingDesc(_, _)
PendingDesc(docs, i) ==
  IF i = 0 THEN <<>>
  ELSE IF docs[i].status = "pending"
       THEN <<[id |-> Oid(i), doc |-> docs[i]]>> \o PendingDesc(docs, i - 1)
       ELSE PendingDesc(docs, i - 1)
get_all_pending_orders(docs) ==
  LET all == PendingDesc(docs, Len(docs)) IN
  IF Len(all) > PendingCap THEN SubSeq(all, 1, PendingCap) ELSE all

\* DatabaseManager.update_order_status: filter {'_id': order_id} with the id as given
update_order_status(docs, order_id, status, execution_price) ==
  [i \in 1..Len(docs) |->
     IF Oid(i) = order_id
     THEN [docs[i] EXCEPT !.status = status, !.execution_price = execution_price]
     ELSE docs[i]]

\* _monitor_limit_orders at the top of a tick
LimTick ==
  /\ lsnap = <<>>
  /\ lticks < MaxTicks
  /\ get_all_pending_orders(orders) # <<>>
  /\ lticks' = lticks + 1
  /\ lsnap' = get_all_pending_orders(orders)
  /\ UNCHANGED <<orders, handed, lcheck, now, NotLimit>>

\* the trigger test of _check_limit_order
should_execute(order_type, limit_price, current_price) ==
  IF order_type = "limit_buy" /\ limit_price > 0 THEN current_price <= limit_price
  ELSE IF order_type = "limit_sell" /\ limit_price > 0 THEN current_price >= limit_price
  ELSE FALSE

\* _check_limit_order for the next order of the tick.  quote is what
\* get_token_price returned: a dict with 'price', or, for the wrapped-SOL mint
\* when neither price API knows it, the float of get_sol_price, on which
\* .get raises AttributeError (logged by the except branch).  ok: the outcome
\* of the market buy or sell the order is handed to.
LimCheck(quote, ok) ==
  /\ lsnap # <<>>
  /\ quote[1] = "float" => Head(lsnap).doc.out_sol
  /\ LET item == Head(lsnap)
         doc == item.doc
         n == item.id[2]
         order_id == StrOf(item.id)
         raised == quote[1] = "float"
         current_price == quote[2]
         go == /\ ~raised
               /\ current_price # 0
               /\ should_execute(doc.trade_type, doc.price, current_price) IN
     /\ handed' = IF go THEN [handed EXCEPT ![n] = Append(@, current_price)] ELSE handed
     /\ orders' = IF go
                  THEN update_order_status(orders, order_id,
                         IF ok THEN "completed" ELSE "failed",
                         IF ok THEN current_price ELSE 0)
                  ELSE orders
     /\ lcheck' = [o |-> n, doc |-> doc, avail |-> current_price # 0,
                   price |-> current_price, handed |-> go, error |-> raised,
                   expired |-> IsExpired(doc, now), ok |-> go /\ ok]
     /\ lsnap' = Tail(lsnap)
  /\ UNCHANGED <<lticks, now, NotLimit>>

Quotes == {<<"dict", p>> : p \in Prices} \cup {<<"float", p>> : p \in Prices}

NextLimit ==
  \/ \E doc \in LimitDocs : DbCreateLimitOrder(doc)
  \/ CreateLimitOrder
  \/ LimTick
  \/ \E q \in Quotes, ok \in BOOLEAN : LimCheck(q, ok)
  \/ Tick

SpecLimit == Init /\ [][NextLimit]_vars


\* ========================================================== stop loss
\* Trade documents with a stop-loss percentage, as DatabaseManager.store_trade
\* takes them; entry_price 0 stands for the key being absent until
\* update_trade_entry_price sets it.
PositionDocs ==
  {[status |-> "completed", stop_loss |-> 10, entry_price |-> e, output_amount |-> a,
    stop_loss_triggered |-> FALSE] : e \in {0, 100}, a \in {0, 5}}

\* DatabaseManager.store_trade
StorePosition(doc) ==
  /\ Len(positions) < MaxPositions
  /\ positions' = Append(positions, doc)
  /\ UNCHANGED <<ssnap, sticks, sells, scheck, NotStop>>

\* DatabaseManager.update_trade_entry_price
UpdateEntryPrice(n, entry_price) ==
  /\ n \in 1..Len(positions)
  /\ positions[n].entry_price # entry_price
  /\ positions' = [positions EXCEPT ![n] = [@ EXCEPT !.entry_price = entry_price]]
  /\ UNCHANGED <<ssnap, sticks, sells, scheck, NotStop>>

\* DatabaseManager.get_completed_trades_with_stop_loss
RECURSIVE StopCandidates(_, _)
StopCandidates(docs, i) ==
  IF i > Len(docs) THEN <<>>
  ELSE IF /\ docs[i].status = "completed"
          /\ docs[i].stop_loss > 0
          /\ docs[i].stop_loss_triggered # TRUE
       THEN <<[id |-> Oid(i), doc |-> docs[i]]>> \o StopCandidates(docs, i + 1)
       ELSE StopCandidates(docs, i + 1)

\* DatabaseManager.update_trade_stop_loss_triggered
update_trade_stop_loss_triggered(docs, trade_id) ==
  LET oid == ObjectId(trade_id) IN
  [i \in 1..Len(docs) |->
     IF Oid(i) = oid THEN [docs[i] EXCEPT !.stop_loss_triggered = TRUE] ELSE docs[i]]

\* _monitor_stop_losses at the top of a tick
StopTick ==
  /\ ssnap = <<>>
  /\ sticks < MaxStopTicks
  /\ StopCandidates(positions, 1) # <<>>
  /\ sticks' = sticks + 1
  /\ ssnap' = StopCandidates(positions, 1)
  /\ UNCHANGED <<positions, sells, scheck, NotStop>>

\* _check_stop_loss: ((current - entry) / entry) * 100 <= -stop_loss, for a
\* known price, entry price and percentage
StopTriggers(doc, current_price) ==
  /\ current_price # 0
  /\ doc.entry_price # 0
  /\ doc.stop_loss # 0
  /\ (current_price - doc.entry_price) * 100 <= -doc.stop_loss * doc.entry_price

\* variant in which the failure of the forced sell is not caught per trade
\* and ends the tick's for loop
StopCheck_m(current_price, ok, saved) ==
  /\ ssnap # <<>>
  /\ LET item == Head(ssnap)
         doc == item.doc
         n == item.id[2]
         sell == StopTriggers(doc, current_price) /\ ~(doc.output_amount <= 0) IN
     /\ sells' = IF sell THEN [sells EXCEPT ![n] = @ + 1] ELSE sells
     /\ positions' = IF sell /\ ok /\ saved
                     THEN update_trade_stop_loss_triggered(positions, StrOf(item.id))
                     ELSE positions
     /\ scheck' = [o |-> n, doc |-> doc, price |-> current_price, sold |-> sell,
                   amount |-> IF sell THEN doc.output_amount ELSE 0]
     /\ ssnap' = IF sell /\ ~ok THEN <<>> ELSE Tail(ssnap)
  /\ UNCHANGED <<sticks, NotStop>>

\* _check_stop_loss and _execute_stop_loss for the next trade of the tick.
\* ok: the outcome of execute_market_sell; saved: whether the store took the
\* stop_loss_triggered update (its failure is swallowed by the store method).
\* The sell is issued for trade.get('output_amount', 0), and not at all when
\* that is not positive.
StopCheck(current_price, ok, saved) ==
  /\ ssnap # <<>>
  /\ LET item == Head(ssnap)
         doc == item.doc
         n == item.id[2]
         sell == StopTriggers(doc, current_price) /\ ~(doc.output_amount <= 0) IN
     /\ sells' = IF sell THEN [sells EXCEPT ![n] = @ + 1] ELSE sells
     /\ positions' = IF sell /\ ok /\ saved
                     THEN update_trade_stop_loss_triggered(positions, StrOf(item.id))
                     ELSE positions
     /\ scheck' = [o |-> n, doc |-> doc, price |-> current_price, sold |-> sell,
                   amount |-> IF sell THEN doc.output_amount ELSE 0]
     /\ ssnap' = Tail(ssnap)
  /\ UNCHANGED <<sticks, NotStop>>

StopPrices == {0, 80, 95}

NextStop ==
  \/ \E doc \in PositionDocs : StorePosition(doc)
  \/ \E n \in 1..MaxPositions : UpdateEntryPrice(n, 100)
  \/ StopTick
  \/ \E p \in StopPrices, ok \in BOOLEAN, saved \in BOOLEAN : StopCheck(p, ok, saved)

SpecStop == Init /\ [][NextStop]_vars


\* ============================================ market buy and sell
\* What process_automatic_fee_deduction does for the caller: it returns True
\* or False (it catches its own exceptions), or the engine has no payment
\* service at all: main.py constructs TradingEngine with
\* self.payment_service while that is still None, and the attribute access
\* on None raises AttributeError.
FeeOutcomes == {"true", "false", "unavailable"}

\* the result both functions return once the swap has succeeded and the
\* trade is stored: the success dict, or the dict of the except branch
AfterSwap(fee) ==
  IF fee = "unavailable"
  THEN [success |-> FALSE, error |-> "AttributeError"]
  ELSE [success |-> TRUE, fee_deducted |-> (fee = "true")]

\* execute_market_buy: amount limits, the user's own maximum, the swap, the
\* trade stored as completed, then the fee deduction
MarketBuy(u, amount_sol, user_max, swap_ok, fee) ==
  /\ Len(mtrades) < MaxMarket
  /\ LET refused == \/ amount_sol < MIN_TRADE_AMOUNT
                    \/ amount_sol > MAX_TRADE_AMOUNT
                    \/ amount_sol > user_max
         stored == ~refused /\ swap_ok IN
     /\ mtrades' = IF stored
                   THEN Append(mtrades, [user_id |-> u, trade_type |-> "market_buy",
                                         amount |-> amount_sol, status |-> "completed"])
                   ELSE mtrades
     /\ mlast' = [fn |-> "buy", swapped |-> stored, fee |-> fee, n |-> Len(mtrades'),
                  result |-> IF refused THEN [success |-> FALSE, error |-> "amount"]
                             ELSE IF ~swap_ok THEN [success |-> FALSE, error |-> "swap"]
                             ELSE AfterSwap(fee)]
  /\ UNCHANGED NotMarket

\* execute_market_sell: the swap, the trade stored as completed, then the
\* fee deduction
MarketSell(u, amount_tokens, swap_ok, fee) ==
  /\ Len(mtrades) < MaxMarket
  /\ mtrades' = IF swap_ok
                THEN Append(mtrades, [user_id |-> u, trade_type |-> "market_sell",
                                      amount |-> amount_tokens, status |-> "completed"])
                ELSE mtrades
  /\ mlast' = [fn |-> "sell", swapped |-> swap_ok, fee |-> fee, n |-> Len(mtrades'),
               result |-> IF ~swap_ok THEN [success |-> FALSE, error |-> "swap"]
                          ELSE AfterSwap(fee)]
  /\ UNCHANGED NotMarket

NextMarket ==
  \/ \E u \in Users, a \in {5, 100, 20000}, m \in {50, 10000}, ok \in BOOLEAN, fee \in FeeOutcomes :
       MarketBuy(u, a, m, ok, fee)
  \/ \E u \in Users, a \in {5, 100}, ok \in BOOLEAN, fee \in FeeOutcomes :
       MarketSell(u, a, ok, fee)

SpecMarket == Init /\ [][NextMarket]_vars


\* ================================================ the monitor loops
\* The loops of start_monitoring side by side while the engine runs, over a
\* store whose items all fail: in _process_orders an expired order
\* (self._cancel_order does not exist: AttributeError, caught per order); in
\* _monitor_limit_orders a price lookup that returns a float (AttributeError,
\* caught in _check_limit_order); in _monitor_stop_losses a forced sell that
\* fails, so that the position is found again by the next tick.
\*
\* The engine as constructed (active_orders empty, not running, no task) over
\* a database that already holds two expired pending snipe trades, two
\* pending limit buys paid out in wrapped SOL and two completed trades with
\* a stop-loss, stored as store_trade and create_limit_order store them.
InitLoops ==
  /\ trades = [n \in 1..2 |-> [user |-> 1, kind |-> "snipe", status |-> "pending",
                               exp |-> 0, req |-> n]]
  /\ active_orders = <<>>
  /\ is_running = FALSE
  /\ creates = <<>>
  /\ execs = <<>>
  /\ loops = <<>>
  /\ cancels = <<>>
  /\ swaps = [n \in 1..MaxTrades |-> 0]
  /\ now = 1
  /\ snipe_doc = NoDoc
  /\ held = NoDoc
  /\ scalls = [c \in 1..2 |-> IdleCall]
  /\ ncalls = 0
  /\ bought = 0
  /\ orders = [n \in 1..2 |-> [trade_type |-> "limit_buy", price |-> 100, exp |-> NoExpiry,
                               out_sol |-> TRUE, status |-> "pending",
                               execution_price |-> 0]]
  /\ lsnap = <<>>
  /\ lticks = 0
  /\ handed = [n \in 1..MaxOrders |-> <<>>]
  /\ lcheck = NoCheck
  /\ positions = [n \in 1..2 |-> [status |-> "completed", stop_loss |-> 10,
                                  entry_price |-> 100, output_amount |-> 5,
                                  stop_loss_triggered |-> FALSE]]
  /\ ssnap = <<>>
  /\ sticks = 0
  /\ sells = [n \in 1..MaxPositions |-> 0]
  /\ scheck = NoCheck
  /\ copy_trading_subscriptions = {}
  /\ cloaded = FALSE
  /\ substore = <<>>
  /\ chain = <<>>
  /\ cticks = 0
  /\ seen = [g \in 1..MaxTxs |-> 0]
  /\ relayed = [k \in (1..MaxTxs) \X Users |-> 0]
  /\ children = [k \in (1..MaxTxs) \X Users |-> {}]
  /\ mtrades = <<>>
  /\ mlast = NoCall
  /\ unsub = {}
  /\ fan = NoFan
  /\ attempts = <<>>
  /\ admitted = {}
  /\ polled = {}
  /\ sublast = NoSub

NextLoops ==
  \/ StartMonitoring
  \/ \E l \in 1..MaxLoops : LoopTop(l)
  \/ \E l \in 1..MaxLoops : LoopItem(l, FALSE)
  \/ LimTick
  \/ LimCheck(<<"float", 95>>, FALSE)
  \/ StopTick
  \/ StopCheck(80, FALSE, FALSE)

\* asyncio resumes every loop task after its sleep, and the awaited store and
\* venue calls of an item return
LoopsFairness ==
  /\ \A l \in 1..MaxLoops : WF_vars(LoopTop(l) \/ LoopItem(l, FALSE))
  /\ WF_vars(LimTick \/ LimCheck(<<"float", 95>>, FALSE))
  /\ WF_vars(StopTick \/ StopCheck(80, FALSE, FALSE))

SpecLoops == InitLoops /\ [][NextLoops]_vars /\ LoopsFairness


\* ======================================================== copy trading
\* _load_copy_trading_subscriptions (from start_monitoring): the in-memory
\* map is filled from the collection copy_subscriptions, which no operation
\* of the engine or the store writes (subscriptions are stored in
\* copy_trading_subscriptions), so what it holds is an input.
LoadCopySubscriptions(found) ==
  /\ ~cloaded
  /\ cloaded' = TRUE
  /\ copy_trading_subscriptions' = found
  /\ UNCHANGED <<substore, chain, cticks, seen, relayed, children, unsub, NotCopy>>

\* subscribe_copy_trading: default settings merged with the caller's, the
\* document inserted by store_copy_trading_subscription; the in-memory map
\* is not touched
default_settings == [enabled |-> TRUE, copy_percentage |-> 100, max_copy_amount |-> 1000,
                     min_trade_amount |-> 100]
SettingsChoices ==
  {default_settings,
   [enabled |-> TRUE, copy_percentage |-> 50, max_copy_amount |-> 300,
    min_trade_amount |-> 500],
   [enabled |-> FALSE, copy_percentage |-> 100, max_copy_amount |-> 1000,
    min_trade_amount |-> 100]}

\* The attributes __init__ gives a TradingEngine.  subscribe_copy_trading
\* reads self.analyzer after the insert: with no such attribute that is an
\* AttributeError, and the except branch returns (False, "Error: ...").
EngineAttributes ==
  {"solana", "db", "payment", "active_orders", "copy_trading_subscriptions", "is_running",
   "price_monitors"}
AfterStored == IF "analyzer" \in EngineAttributes THEN "ok" ELSE "error"

SubscribeCopyTrading(u, settings) ==
  /\ Len(substore) < MaxSubs
  /\ substore' = Append(substore, [user_id |-> u, copy_settings |-> settings,
                                   is_active |-> TRUE])
  /\ unsub' = unsub \ {u}
  /\ sublast' = [user |-> u, stored |-> TRUE, ret |-> AfterStored]
  /\ UNCHANGED <<copy_trading_subscriptions, cloaded, chain, cticks, seen, relayed, children,
                 polled, NotSubscription>>

\* subscribe_copy_trading when validate_address rejects the wallet address
\* ("invalid") or store_copy_trading_subscription returns False because
\* insert_one raised ("store_failed"): nothing is stored
SubscribeFails(u, why) ==
  /\ sublast' = [user |-> u, stored |-> FALSE, ret |-> why]
  /\ UNCHANGED <<copyVars, polled, NotSubscription>>

\* a transaction of the source wallet lands on chain
ChainTx(change, amount) ==
  /\ Len(chain) < MaxTxs
  /\ chain' = Append(chain, [sol_change |-> change, amount |-> amount, old |-> FALSE])
  /\ UNCHANGED <<copy_trading_subscriptions, cloaded, substore, cticks, seen, relayed, children, unsub, NotCopy>>

\* a transaction gets older than five minutes
TxAges(g) ==
  /\ g \in 1..Len(chain)
  /\ ~chain[g].old
  /\ chain' = [chain EXCEPT ![g] = [@ EXCEPT !.old = TRUE]]
  /\ UNCHANGED <<copy_trading_subscriptions, cloaded, substore, cticks, seen, relayed, children, unsub, NotCopy>>

\* variant of _parse_transaction whose dict names the two token mints of
\* the transfer
parse_transaction_m(g, raw) ==
  [signature |-> g, old |-> raw.old,
   type |-> IF raw.sol_change > 0 THEN "receive" ELSE "send",
   amount |-> raw.amount, amount_usd |-> 0,
   input_token |-> SOL_MINT, output_token |-> "TOKEN"]

\* SolanaService._parse_transaction: the dict built for a transaction has
\* signature, block_time, type and amount; it has no 'amount_usd',
\* 'input_token' or 'output_token' key, which .get reads as 0 and None
parse_transaction(g, raw) ==
  [signature |-> g, old |-> raw.old,
   type |-> IF raw.sol_change > 0 THEN "receive" ELSE "send",
   amount |-> raw.amount, amount_usd |-> 0,
   input_token |-> None, output_token |-> None]

\* the significance test of _monitor_copy_trading; "none" when it fails
detected_trade_type(tx) ==
  IF tx.type = "receive" /\ tx.amount > 100 THEN "buy"
  ELSE IF tx.type = "send" /\ tx.amount > 100 THEN "sell"
  ELSE IF tx.amount_usd > 100000 THEN "swap"
  ELSE "none"

\* variant of the copy amount whose USD branch leaves out the cap
copy_amount_m(tx, cs) ==
  IF tx.amount_usd > 0
  THEN ((tx.amount_usd * cs.copy_percentage) \div 100) \div 100
  ELSE Min((tx.amount * cs.copy_percentage) \div 100, cs.max_copy_amount)

\* the copy amount of _execute_copy_trades, in thousandths of a SOL;
\* amount_usd is in thousandths of a dollar.  (Amounts are exact here: the
\* rounding of the binary floats in (max_copy_amount * 100) / 100 is not
\* represented.)
copy_amount(tx, cs) ==
  IF tx.amount_usd > 0
  THEN Min((tx.amount_usd * cs.copy_percentage) \div 100, cs.max_copy_amount * 100) \div 100
  ELSE Min((tx.amount * cs.copy_percentage) \div 100, cs.max_copy_amount)

\* _execute_copy_trades: the documents of the store for which a child trade
\* is submitted (get_copy_trading_users returns the active ones)
ChildDocs(tx, docs) ==
  IF tx.amount < 100 /\ tx.amount_usd < 100000 THEN {}
  ELSE IF tx.input_token = None \/ tx.output_token = None THEN {}
  ELSE {i \in 1..Len(docs) :
          /\ docs[i].is_active
          /\ docs[i].copy_settings.enabled
          /\ ~(copy_amount(tx, docs[i].copy_settings) < 10)
          /\ detected_trade_type(tx) \in {"buy", "sell", "swap"}}

\* solana.get_wallet_transactions(wallet_address, limit=5): the newest five
RecentTxs(txs) ==
  {g \in 1..Len(txs) : g > Len(txs) - RecentLimit}

\* the transactions a tick passes to _execute_copy_trades
Significant(txs) ==
  {g \in RecentTxs(txs) :
     /\ ~txs[g].old
     /\ detected_trade_type(parse_transaction(g, txs[g])) # "none"}

\* monitored_wallets of a tick: the union of the wallet lists of the
\* in-memory map (there is one source wallet)
monitored_wallets(subs) == IF subs = {} THEN {} ELSE {"wallet"}

\* one tick of _monitor_copy_trading
CopyTick ==
  /\ cloaded
  /\ copy_trading_subscriptions # {}
  /\ cticks < MaxCopyTicks
  /\ cticks' = cticks + 1
  /\ seen' = [g \in 1..MaxTxs |-> IF g \in Significant(chain) THEN seen[g] + 1 ELSE seen[g]]
  /\ relayed' = [k \in (1..MaxTxs) \X Users |->
       IF k[1] \in Significant(chain)
       THEN relayed[k] + Cardinality({i \in ChildDocs(parse_transaction(k[1], chain[k[1]]), substore) :
                                        substore[i].user_id = k[2]})
       ELSE relayed[k]]
  /\ children' = [k \in (1..MaxTxs) \X Users |->
       IF k[1] \in Significant(chain)
       THEN LET tx == parse_transaction(k[1], chain[k[1]]) IN
            children[k] \cup {copy_amount(tx, substore[i].copy_settings) :
                                i \in {j \in ChildDocs(tx, substore) : substore[j].user_id = k[2]}}
       ELSE children[k]]
  /\ polled' = monitored_wallets(copy_trading_subscriptions)
  /\ UNCHANGED <<copy_trading_subscriptions, cloaded, substore, chain, unsub, sublast,
                 NotSubscription>>

\* a tick of _monitor_copy_trading that finds the in-memory map empty: it
\* sleeps and goes back to the top, no wallet is fetched
CopyIdle ==
  /\ cloaded
  /\ copy_trading_subscriptions = {}
  /\ cticks < MaxCopyTicks
  /\ cticks' = cticks + 1
  /\ polled' = {}
  /\ UNCHANGED <<copy_trading_subscriptions, cloaded, substore, chain, seen, relayed, children,
                 unsub, sublast, NotSubscription>>

NextCopy ==
  \/ \E found \in SUBSET Users : LoadCopySubscriptions(found)
  \/ \E u \in Users, cs \in SettingsChoices : SubscribeCopyTrading(u, cs)
  \/ \E change \in {-1, 1}, amount \in {50, 1000} : ChainTx(change, amount)
  \/ \E g \in 1..MaxTxs : TxAges(g)
  \/ CopyTick

SpecCopy == Init /\ [][NextCopy]_vars


\* --------------------- _execute_copy_trades, one subscriber at a time
\* DatabaseManager.remove_copy_trading_subscription: update_one on
\* {user_id, wallet_address}, with no is_active in the filter, sets is_active
\* False and a fresh unsubscribed_at on one matching document, i, so
\* modified_count is 1 and the call returns success whenever a document of
\* the pair exists, active or not.  Without one the call returns False and
\* changes nothing.
UnsubscribeCopyTrading(u, i) ==
  /\ i \in 1..Len(substore)
  /\ substore[i].user_id = u
  /\ substore' = [substore EXCEPT ![i] = [@ EXCEPT !.is_active = FALSE]]
  /\ unsub' = unsub \cup {u}
  /\ UNCHANGED <<copy_trading_subscriptions, cloaded, chain, cticks, seen, relayed, children,
                 NotCopy>>

\* The transaction dicts _execute_copy_trades is examined with.  The dict is
\* the function's parameter; _monitor_copy_trading, its one caller, passes
\* what _parse_transaction built (no token keys, see parse_transaction), for
\* which the function returns before its loop.  The loop is examined with
\* dicts that also carry the two token keys.
FanoutTxs ==
  {[parse_transaction(1, [sol_change |-> 1, amount |-> a, old |-> FALSE])
      EXCEPT !.input_token = t[1], !.output_token = t[2], !.amount_usd = usd] :
     a \in {150, 1000}, t \in {<<None, None>>, <<SOL_MINT, "TOKEN">>},
     usd \in {0, 150000}}

\* db.get_copy_trading_users: the documents of the wallet with is_active True
get_copy_trading_users(docs) == SelectSeq(docs, LAMBDA d : d.is_active)

\* the tests of the loop body that come before the child trade
Eligible(tx, doc) ==
  /\ doc.copy_settings.enabled
  /\ ~(copy_amount(tx, doc.copy_settings) < 10)
  /\ detected_trade_type(tx) \in {"buy", "sell", "swap"}

\* _execute_copy_trades up to its loop
FanBegin(tx) ==
  /\ fan.pc # "loop"
  /\ LET copy_users == get_copy_trading_users(substore) IN
     IF \/ copy_users = <<>>
        \/ (tx.amount < 100 /\ tx.amount_usd < 100000)
        \/ tx.input_token = None
        \/ tx.output_token = None
     THEN fan' = [pc |-> "done", tx |-> tx, snap |-> <<>>, left |-> <<>>]
     ELSE fan' = [pc |-> "loop", tx |-> tx, snap |-> copy_users, left |-> copy_users]
  /\ attempts' = <<>>
  /\ UNCHANGED <<copyVars, NotFan>>

\* variant in which an exception of the child trade is not caught inside
\* the loop and ends the fan-out
FanChild_m(outcome) ==
  /\ fan.pc = "loop"
  /\ LET doc == Head(fan.left)
         submit == Eligible(fan.tx, doc) IN
     /\ attempts' = IF submit
                    THEN Append(attempts, [user |-> doc.user_id,
                                           source |-> fan.tx.amount,
                                           amount |-> copy_amount(fan.tx, doc.copy_settings),
                                           settings |-> doc.copy_settings,
                                           outcome |-> outcome])
                    ELSE attempts
     /\ fan' = IF Len(fan.left) = 1 \/ (submit /\ outcome = "raised")
               THEN [fan EXCEPT !.pc = "done", !.left = <<>>]
               ELSE [fan EXCEPT !.left = Tail(@)]
  /\ UNCHANGED <<copyVars, NotFan>>

\* One pass of the loop body: the subscriber's settings are read, the amount
\* computed, and for an enabled subscriber with an amount of at least 0.01
\* the child trade is awaited.  outcome: the buy or sell returned success,
\* returned failure, or something in the try block raised (caught by the
\* except of the loop body).
FanChild(outcome) ==
  /\ fan.pc = "loop"
  /\ LET doc == Head(fan.left)
         submit == Eligible(fan.tx, doc) IN
     /\ attempts' = IF submit
                    THEN Append(attempts, [user |-> doc.user_id,
                                           source |-> fan.tx.amount,
                                           amount |-> copy_amount(fan.tx, doc.copy_settings),
                                           settings |-> doc.copy_settings,
                                           outcome |-> outcome])
                    ELSE attempts
     /\ fan' = IF Len(fan.left) = 1
               THEN [fan EXCEPT !.pc = "done", !.left = <<>>]
               ELSE [fan EXCEPT !.left = Tail(@)]
  /\ UNCHANGED <<copyVars, NotFan>>

ChildOutcomes == {"ok", "failed", "raised"}

NextFanout ==
  \/ \E u \in Users, cs \in SettingsChoices : SubscribeCopyTrading(u, cs)
  \/ \E tx \in FanoutTxs : FanBegin(tx)
  \/ \E outcome \in ChildOutcomes : FanChild(outcome)

SpecFanout == Init /\ [][NextFanout]_vars

\* the same with unsubscribe_copy_trading
NextSubs ==
  \/ NextFanout
  \/ \E u \in Users, i \in 1..MaxSubs : UnsubscribeCopyTrading(u, i)

SpecSubs == Init /\ [][NextSubs]_vars

\* the running monitor with subscribe and unsubscribe calls
NextPoll ==
  \/ \E found \in SUBSET Users : LoadCopySubscriptions(found)
  \/ \E u \in Users, cs \in SettingsChoices : SubscribeCopyTrading(u, cs)
  \/ \E u \in Users, why \in {"invalid", "store_failed"} : SubscribeFails(u, why)
  \/ \E u \in Users, i \in 1..MaxSubs : UnsubscribeCopyTrading(u, i)
  \/ CopyTick
  \/ CopyIdle

SpecPoll == Init /\ [][NextPoll]_vars

\* ----------------------------------------------------------------- claims
NonPending == {"executing", "completed", "failed", "cancelled", "expired"}
Edges == {<<"pending", "executing">>, <<"pending", "cancelled">>, <<"pending", "expired">>,
          <<"executing", "completed">>, <<"executing", "failed">>}

C2_StatusEdges ==
  [][\A i \in 1..Len(trades) :
       trades'[i].status # trades[i].status
         => <<trades[i].status, trades'[i].status>> \in Edges]_vars

CancelReturns(c) ==
  /\ c \in 1..Len(cancels')
  /\ cancels'[c].pc = "done"
  /\ (c > Len(cancels) \/ cancels[c].pc # "done")

\* C3: cancel_user_order on an order that is Executing or terminal returns a
\* failure and changes neither the stored status nor active_orders.
C3_CancelNonPendingFails ==
  [][\A c \in 1..MaxCancels :
       (CancelReturns(c) /\ cancels'[c].st0 \in NonPending)
         => (cancels'[c].ret # "ok" /\ trades' = trades /\ active_orders' = active_orders)]_vars

\* C4: cancel_user_order by the owner of a Pending order returns success and
\* leaves the order Cancelled in the store and absent from active_orders.
C4_CancelPendingSucceeds ==
  [][\A c \in 1..MaxCancels :
       (CancelReturns(c) /\ cancels'[c].st0 = "pending" /\ cancels'[c].own0 = cancels'[c].user)
         => /\ cancels'[c].ret = "ok"
            /\ StatusOf(trades', cancels'[c].oid) = "cancelled"
            /\ ~HasKey(active_orders', StrOf(cancels'[c].oid))]_vars

\* C5: for a snipe allocation, the amount actually spent by successful child
\* buys and the recorded total_spent never exceed max_amount.
C5_SpentWithinMax ==
  snipe_doc # NoDoc =>
    (bought <= snipe_doc.max_amount /\ snipe_doc.total_spent <= snipe_doc.max_amount)

\* C6: a limit order whose expiry has passed is never handed to execution.
C6_ExpiredNeverHanded == lcheck # NoCheck => ~(lcheck.handed /\ lcheck.expired)

\* C7: a pending limit order is handed to execution in a tick if and only
\* if a price is available for its output asset and satisfies its trigger
\* (a limit buy: price <= trigger price; a limit sell: price >= trigger price).
C7_HandedIffTriggered ==
  lcheck # NoCheck =>
    (lcheck.handed <=>
       /\ lcheck.avail
       /\ \/ lcheck.doc.trade_type = "limit_buy" /\ lcheck.price <= lcheck.doc.price
          \/ lcheck.doc.trade_type = "limit_sell" /\ lcheck.price >= lcheck.doc.price)

\* C8: a limit order is executed at most once, at the first tick whose price
\* satisfies its trigger, and the execution price recorded for it is the
\* price observed at that tick.
C8_ExecutedOnceAtFirstTrigger ==
  /\ \A n \in 1..Len(orders) : Len(handed[n]) <= 1
  /\ (lcheck # NoCheck /\ lcheck.ok) =>
        /\ orders[lcheck.o].status = "completed"
        /\ orders[lcheck.o].execution_price = lcheck.price

\* C9: the forced sell of a stop-loss is invoked at most once per trade.
C9_StopLossSellsOnce == \A n \in 1..Len(positions) : sells[n] <= 1

\* C10: for every source transaction and every subscriber the relay submits
\* at most one child trade across all ticks of _monitor_copy_trading.
C10_RelayedAtMostOnce ==
  \A g \in 1..MaxTxs, u \in Users : relayed[<<g, u>>] <= 1

\* a transaction was passed to _execute_copy_trades in two ticks while a
\* subscriber of the wallet has copying enabled
C10_Witness ==
  \E g \in 1..Len(chain) :
    /\ seen[g] >= 2
    /\ \E i \in 1..Len(substore) : substore[i].is_active /\ substore[i].copy_settings.enabled

\* C11: a tick that relays a source trade submits, for every enabled
\* subscriber, a child trade whose amount is
\* min(source amount * copy_percentage / 100, max_copy_amount), and no child
\* trade of another amount.
C11_ChildAmountScaledAndCapped ==
  [][cticks' = cticks + 1 =>
       \A g \in Significant(chain), i \in 1..Len(substore) :
         (substore[i].is_active /\ substore[i].copy_settings.enabled) =>
           LET cs == substore[i].copy_settings
               u == substore[i].user_id
               scaled == (chain[g].amount * cs.copy_percentage) \div 100
               expected == IF scaled <= cs.max_copy_amount THEN scaled
                           ELSE cs.max_copy_amount IN
           /\ expected \in children'[<<g, u>>]
           /\ \A a \in children'[<<g, u>>] :
                \E j \in 1..Len(substore) :
                  /\ substore[j].user_id = u
                  /\ a = (IF (chain[g].amount * substore[j].copy_settings.copy_percentage) \div 100
                             <= substore[j].copy_settings.max_copy_amount
                          THEN (chain[g].amount * substore[j].copy_settings.copy_percentage) \div 100
                          ELSE substore[j].copy_settings.max_copy_amount)]_vars

\* C12: once total_spent of a snipe allocation has reached max_amount, a
\* further execute_snipe_trade call for it performs no buy and leaves
\* total_spent and executed_trades unchanged.
C12_ExhaustedAllocationTradesNothing ==
  [][(/\ snipe_doc # NoDoc
      /\ snipe_doc.total_spent >= snipe_doc.max_amount
      /\ ncalls' = ncalls + 1) =>
       /\ \A c \in 1..2 : scalls'[c].pc = "buy" => scalls[c].pc = "buy"
       /\ bought' = bought
       /\ snipe_doc' = snipe_doc]_vars

\* five successful calls spent a budget of 1.0 in increments of 0.2, and a
\* sixth call was refused
C12_Witness ==
  /\ snipe_doc # NoDoc
  /\ snipe_doc.max_amount = 1000
  /\ snipe_doc.total_spent = 1000
  /\ Len(snipe_doc.executed_trades) = 5
  /\ \E c \in 1..2 : scalls[c].pc = "idle" /\ "last" \in DOMAIN scalls[c]
                     /\ scalls[c].last = "Max amount already spent"

\* C13: a snipe allocation is terminal (its status is no longer active) as
\* soon as total_spent equals max_amount or the user cancelled it, and is
\* active in every other state.
C13_TerminalWhenSpentOrCancelled ==
  snipe_doc # NoDoc =>
    /\ snipe_doc.status = "active" => snipe_doc.total_spent # snipe_doc.max_amount
    /\ snipe_doc.status # "active" =>
         (snipe_doc.total_spent = snipe_doc.max_amount \/ snipe_doc.status = "cancelled")

\* C14: _validate_order returns the reason of the first failing check of
\* this sequence: amount within the global limits, amount within the
\* account's own maximum, input and output address, slippage, feature gating.
C14_FirstFailingReason ==
  \A r \in 1..Len(creates) :
    (creates[r].pc = "rejected" /\ creates[r].order.o.exists) =>
      LET o == creates[r].order.o IN
      creates[r].ret =
        (IF o.amount < MIN_TRADE_AMOUNT THEN "Minimum trade amount"
         ELSE IF o.amount > MAX_TRADE_AMOUNT THEN "Maximum trade amount"
         ELSE IF o.amount > o.user_max THEN "Amount exceeds your maximum trade limit"
         ELSE IF ~o.in_ok THEN "Invalid input token address"
         ELSE IF ~o.out_ok THEN "Invalid output token address"
         ELSE IF o.slippage < 1 \/ o.slippage > 500
              THEN "Slippage must be between 0.1% and 50%"
         ELSE "Copy trading requires premium subscription")

\* C15: when validation rejects an order, create_trade_order returns the
\* reason and creates no state: the store and active_orders are unchanged
\* and no execution task is started.
C15_RejectedCreatesNothing ==
  [][(/\ Len(creates') = Len(creates) + 1
      /\ creates'[Len(creates')].pc = "rejected") =>
       /\ creates'[Len(creates')].ret = validate_order(creates'[Len(creates')].order.o)
       /\ creates'[Len(creates')].ret # "ok"
       /\ trades' = trades
       /\ active_orders' = active_orders
       /\ execs' = execs]_vars

\* an order was rejected while the store and active_orders held another one
C15_Witness ==
  /\ \E r \in 1..Len(creates) : creates[r].pc = "rejected" /\ r > 1
  /\ Len(trades) >= 1
  /\ active_orders # <<>>

\* C18: when the store fails during admission (store_trade fails, or the
\* lookup of the inserted id fails or raises), create_trade_order returns an
\* error and the order is present neither in the store nor in active_orders.
C18_FailedAdmissionLeavesNothing ==
  \A r \in 1..Len(creates) :
    creates[r].pc \in {"store_failed", "lookup_failed"} =>
      /\ \A n \in 1..Len(trades) : trades[n].req # r
      /\ \A i \in 1..Len(active_orders) : active_orders[i].order.req # r

\* C16: _execute_market_order leaves the order completed if and only if
\* execute_swap reported success, and failed if and only if it reported
\* failure; a swap that succeeded is never recorded as failed.
C16_CompletedIffSwapSucceeded ==
  [][\A x \in 1..Len(execs) :
       (execs[x].pc = "final" /\ execs'[x].pc = "cleanup") =>
         /\ StatusOf(trades', ObjectId(execs[x].id)) = "completed" <=> execs[x].res = "ok"
         /\ StatusOf(trades', ObjectId(execs[x].id)) = "failed" <=> execs[x].res = "fail"]_vars

\* C19: when a store write of a status transition fails during
\* _execute_market_order, the order is not dropped from active_orders as
\* finalized: whenever the function removes it, the store holds a terminal
\* status for it.
C19_DroppedOnlyWhenStoreTerminal ==
  [][\A x \in 1..Len(execs) :
       (execs[x].pc = "cleanup" /\ execs'[x].pc = "done") =>
         StatusOf(trades', ObjectId(execs[x].id)) \in {"completed", "failed", "cancelled"}]_vars

\* C17: for execute_market_buy and execute_market_sell, when the swap
\* succeeded the returned outcome is success and the stored trade stays
\* completed, whatever the fee deduction does.
C17_FeeFailureDoesNotAffectOutcome ==
  (mlast # NoCall /\ mlast.swapped) =>
    /\ mlast.result.success
    /\ mtrades[mlast.n].status = "completed"

C21_FailedIsNeverRetried ==
  [][\A n \in 1..Len(orders) :
       (lcheck # NoCheck /\ lcheck.o = n /\ lcheck.handed /\ ~lcheck.ok)
         => /\ orders[n].status = "failed"
            /\ handed'[n] = handed[n]]_vars

\* C22: in the fan-out of one source trade a failure or exception in the
\* child trade of one subscriber does not keep the child trade of any other
\* subscriber from being attempted: when the fan-out has ended, every
\* subscriber of its list that passed the tests of the loop body has had one
\* child trade attempted, whatever the outcomes of the others were.
C22_FanoutIsolatesSubscribers ==
  fan.pc = "done" =>
    \A i \in 1..Len(fan.snap) :
      Eligible(fan.tx, fan.snap[i]) =>
        Cardinality({j \in 1..Len(attempts) :
                       /\ attempts[j].user = fan.snap[i].user_id
                       /\ attempts[j].settings = fan.snap[i].copy_settings})
          = Cardinality({k \in 1..Len(fan.snap) :
                           /\ Eligible(fan.tx, fan.snap[k])
                           /\ fan.snap[k].user_id = fan.snap[i].user_id
                           /\ fan.snap[k].copy_settings = fan.snap[i].copy_settings})

\* a fan-out has ended in which the child trade of one user raised and the
\* child trade of the other user was attempted after it
C22_Witness ==
  /\ fan.pc = "done"
  /\ \E j, k \in 1..Len(attempts) :
       /\ j < k
       /\ attempts[j].outcome = "raised"
       /\ attempts[j].user # attempts[k].user

\* C23: after any sequence of subscribe and unsubscribe calls the store
\* holds at most one active subscription document for each subscriber (of
\* the one source wallet).
C23_OneActiveRecordPerPair ==
  \A u \in Users :
    Cardinality({i \in 1..Len(substore) : substore[i].user_id = u /\ substore[i].is_active}) <= 1

C25_ExpiredSweptByNextTick ==
  [][\A l \in 1..Len(loops) :
       (loops[l].pc = "iter" /\ loops'[l].pc = "top") =>
         /\ \A k \in 1..Len(active_orders') : ~IsExpired(active_orders'[k].order, now')
         /\ \A n \in 1..Len(trades') :
              trades'[n].status = "pending" => ~IsExpired(trades'[n], now')]_vars

\* C26: each call of _execute_market_order that reached the swap has
\* emitted exactly one alert when it has ended, also when the swap raised.
C26_OneAlertPerExecution ==
  \A x \in 1..Len(execs) : execs[x].pc = "done" => execs[x].alerts = 1

\* C27: an order or allocation of kind copy_trade or snipe of a free-tier
\* account is never admitted, through create_trade_order or through
\* create_snipe_order.
C27_FreeTierGated ==
  \A a \in admitted : a.tier = "free" => a.kind \notin {"copy_trade", "snipe"}

\* C28: in a stop-loss tick the forced sell is issued for a completed trade
\* if and only if a price is available, entry price and stop-loss percentage
\* are non-zero and (entry - current) / entry * 100 >= stop-loss percentage;
\* the sell is for the trade's output amount.
C28_StopLossSellsIffTriggered ==
  scheck # NoCheck =>
    LET doc == scheck.doc IN
    /\ scheck.sold <=> (/\ scheck.price # 0
                        /\ doc.entry_price # 0
                        /\ doc.stop_loss # 0
                        /\ (doc.entry_price - scheck.price) * 100
                             >= doc.stop_loss * doc.entry_price)
    /\ scheck.sold => scheck.amount = doc.output_amount

\* C29: for a snipe allocation the persisted total_spent and
\* executed_trades change only together, by one appended trade and its
\* amount, and, once no call is between its buy and its update of the store,
\* the persisted total_spent is the sum of the child buys that succeeded.
C29_SpentMatchesExecutedTrades ==
  /\ [][(snipe_doc # NoDoc /\ snipe_doc' # snipe_doc) =>
          LET et == snipe_doc.executed_trades
              et2 == snipe_doc'.executed_trades IN
          \/ et2 = et /\ snipe_doc'.total_spent = snipe_doc.total_spent
          \/ /\ Len(et2) = Len(et) + 1
             /\ SubSeq(et2, 1, Len(et)) = et
             /\ snipe_doc'.total_spent = snipe_doc.total_spent + et2[Len(et2)]]_vars
  /\ []((snipe_doc # NoDoc /\ \A c \in 1..2 : scalls[c].pc # "record")
          => snipe_doc.total_spent = bought)

\* C31: the amount of every child trade submitted for a subscriber is at
\* most that subscriber's max_copy_amount, whether the amount was computed
\* from the SOL amount or from the USD amount of the source transaction.
C31_ChildWithinMaxCopyAmount ==
  \A k \in 1..Len(attempts) : attempts[k].amount <= attempts[k].settings.max_copy_amount

\* a child trade computed in the USD branch for which the cap is what
\* decides the amount
C31_Witness ==
  /\ fan.pc # "none"
  /\ fan.tx.amount_usd > 0
  /\ \E k \in 1..Len(attempts) :
       /\ attempts[k].amount = attempts[k].settings.max_copy_amount
       /\ (fan.tx.amount_usd * attempts[k].settings.copy_percentage) \div 100
            > attempts[k].settings.max_copy_amount * 100

\* C32: at every tick of _monitor_copy_trading the wallets polled are the
\* wallets that have at least one active subscription in the store at that
\* time.
C32_PolledAreTheSubscribedWallets ==
  [][cticks' # cticks =>
       polled' = (IF \E i \in 1..Len(substore) : substore[i].is_active
                  THEN {"wallet"} ELSE {})]_vars

\* C39: a subscribe_copy_trading call that stored the subscription returns
\* success, and one that returns a failure has stored nothing.
C39_FailureMeansNothingStored ==
  sublast.stored <=> sublast.ret = "ok"

\* C33: a tick of _process_orders works through the snapshot it took: while
\* orders of the snapshot remain, a step of the loop either leaves it where
\* it is, suspends it on the execution of the first remaining order, or
\* moves it to the next one, whatever was admitted to or removed from
\* active_orders in the meantime.
C33_TickWalksItsSnapshot ==
  [][\A l \in 1..Len(loops) :
       (loops[l].pc \in {"iter", "wait"} /\ Len(loops[l].snap) > 1) =>
          \/ loops'[l] = loops[l]
          \/ loops'[l] = [pc |-> "wait", snap |-> loops[l].snap]
          \/ loops'[l] = [pc |-> "iter", snap |-> Tail(loops[l].snap)]]_vars

\* a tick that is at a later order of its snapshot after an execution it
\* awaited removed an order from active_orders
C33_Witness ==
  \E l \in 1..Len(loops) :
    /\ loops[l].pc = "iter"
    /\ loops[l].snap # <<>>
    /\ \E x \in 1..Len(execs) :
         /\ execs[x].by = l
         /\ execs[x].pc = "done"
         /\ ~HasKey(active_orders, execs[x].id)
         /\ execs[x].id # Head(loops[l].snap).id

\* C35: at any time at most one instance of the background loop is running,
\* after any sequence of start_monitoring and stop_monitoring calls.
C35_OneLoopInstance ==
  Cardinality({l \in 1..Len(loops) : loops[l].pc # "exit"}) <= 1

C37_NoSwapAfterCancelled ==
  [][\A n \in 1..MaxTrades :
       (\E c \in 1..Len(cancels) : cancels[c].ret = "ok" /\ cancels[c].oid[2] = n)
         => swaps'[n] = swaps[n]]_vars

\* C40: a cancel_user_order call by a user who does not own the order
\* returns a failure and changes neither the stored trades nor
\* active_orders.
C40_CancelByNonOwnerFails ==
  [][\A c \in 1..MaxCancels :
       (CancelReturns(c) /\ cancels'[c].own0 \notin {0, cancels'[c].user})
         => (cancels'[c].ret # "ok" /\ trades' = trades /\ active_orders' = active_orders)]_vars

\* a call by the other user, with the ObjectId of a stored order that is
\* still pending and active, has returned
C40_Witness ==
  \E c \in 1..Len(cancels) :
    /\ cancels[c].pc = "done"
    /\ cancels[c].oid[1] = "oid"
    /\ cancels[c].own0 \notin {0, cancels[c].user}
    /\ cancels[c].ret = "Order not found"
    /\ trades[cancels[c].oid[2]].status = "pending"
    /\ HasKey(active_orders, StrOf(cancels[c].oid))

C38_ReloadDoesNotSwapAgain ==
  [][\A n \in 1..MaxTrades : swaps[n] >= 1 => swaps'[n] = swaps[n]]_vars
====
